---- MODULE Spec2Model ----
(***************************************************************************)
(* The event-loop wrapper of pipewire-rs (pipewire/src/loop_.rs): Loop,    *)
(* LoopRef and the five Source kinds, over the native loop provider.       *)
(*                                                                         *)
(* The wrapper (every definition named after a Rust item) is translated    *)
(* from loop_.rs.  The native provider (pw_loop_new, pw_loop_destroy and   *)
(* the spa_loop_control / spa_loop_utils method tables) is not part of the *)
(* repository: the Native* operators, Ready, Expirations and WaitTime      *)
(* state its contract as loop_.rs documents it and the specification       *)
(* describes it.                                                           *)
(*                                                                         *)
(* Time is kept per timer: every timer source has a clock, counted from    *)
(* its last update_timer or, once a periodic timer has fired, from its     *)
(* last expiry; all running clocks advance together.                       *)
(***************************************************************************)
EXTENDS Integers, Sequences, FiniteSets, TLC

\* ------------------------------------------------------------------ bounds
MaxLoops == 2
MaxSources == 2
\* how far a timer's clock runs
MaxTime == 2
\* ceiling of an event source's counter (stands for 2^64 - 2)
MaxCount == 2
\* scaled unit sizes
NanosPerMilli == 1
MillisPerSec == 2
\* largest value of the native c_int (stands for 2^31 - 1)
CIntMax == 3
\* largest value of an i64 (stands for 2^63 - 1)
I64Max == 1

NanosPerSec == MillisPerSec * NanosPerMilli

NULL == 0
Res == 1..MaxLoops
Src == 1..MaxSources
Signals == {"SIGINT", "SIGTERM"}
\* the interest masks add_io is called with, and the conditions a descriptor
\* is seen in
IoMasks == {{"IN"}, {"IN", "OUT"}}
IoConditions == {{}, {"OUT"}}
IoObjects == {"a", "b"}
Threads == {"main", "other"}

\* Option<T>: None, or Some(x)
None == <<>>
Some(x) == <<x>>

\* std::time::Duration: whole seconds and sub-second nanoseconds
Duration(s, n) == [secs |-> s, nanos |-> n]
ZERO == Duration(0, 0)

VARIABLES
    status,     \* "running", "panicked" or "ub"
    loops,      \* per native loop resource: its state, its owner, destroys,
                \* the thread its Loop lives on, the thread that entered it
    nullLoop,   \* a Loop wrapping a null pointer exists
    source,     \* per slot: the Rust Source handle
    reg,        \* per slot: the native provider's registration
    obs,        \* per slot: history of the requests made of the source
    last        \* the last operation, what it returned and what it invoked

vars == <<status, loops, nullLoop, source, reg, obs, last>>

NoLoop == [res |-> "unalloc", owner |-> "none", destroys |-> 0,
           thread |-> "none", entered |-> "none"]
NoSource == [state |-> "none", kind |-> "none", loop |-> NULL, data |-> "none",
             io |-> "none", wasReady |-> FALSE, dangling |-> FALSE]
NoReg == [registered |-> FALSE, kind |-> "none", loop |-> NULL,
          enabled |-> FALSE, count |-> 0,
          clock |-> 0, deadline |-> 0, interval |-> 0,
          mask |-> {}, rdy |-> {},
          signo |-> "none", sigPending |-> FALSE, destroys |-> 0]
\* history of the requests made: the enable flag last asked of an idle
\* source, the signal() calls since an event source's callback last ran, the
\* time spans last asked of a timer (in ns), whether the callback has run
\* (a timer's: since it was last set), whether a timer was ever armed
NoObs == [enabled |-> FALSE, signalled |-> 0, reqV |-> 0, reqI |-> 0,
          fired |-> FALSE, everArmed |-> FALSE]

\* last: the operation, its loop, its result, and per source it dispatched
\* the arguments the trampoline got and those it gave the callback
Op(name, l, r) ==
    [op |-> name, loop |-> l, ret |-> r, invoked |-> <<>>, waited |-> 0,
     trace |-> <<>>, src |-> NULL, native |-> <<>>, result |-> <<>>,
     prior |-> <<>>]
\* an operation that returns nothing and dispatches nothing
NoOp == Op("none", NULL, 0)

Init ==
    /\ status = "running"
    /\ loops = [r \in Res |-> NoLoop]
    /\ nullLoop = FALSE
    /\ source = [s \in Src |-> NoSource]
    /\ reg = [s \in Src |-> NoReg]
    /\ obs = [s \in Src |-> NoObs]
    /\ last = NoOp

\* A panic or undefined behaviour ends the run: the unwinding after a panic
\* runs the destructors that Source_drop and Loop_drop model, in an order the
\* borrow rules allow, as a run that does not panic may also do.
Running == status = "running"

Live(s) == source[s].state = "live"
\* the Sources that hold a `&'l LoopRef` borrowed from the Loop owning r
Borrowers(r) == {s \in Src : Live(s) /\ source[s].loop = r}
\* a Loop value wraps r, so `&LoopRef` can be had from it by Deref
HasLoop(r) == loops[r].owner = "Loop"

SetMin(S) == CHOOSE x \in S : \A y \in S : x <= y

\* ------------------------------------------------- native loop resource
\* pw_loop_new: a fresh resource, or NULL when none is left to allocate
NativeLoopNew ==
    LET free == {r \in Res : loops[r].res = "unalloc"}
    IN  IF free = {} THEN NULL ELSE SetMin(free)

\* pw_loop_destroy
NativeLoopDestroy(r) == [loops EXCEPT ![r].res = "destroyed"]

\* --------------------------------------------------------------- Loop
\* (mutation: a Source holding a raw pointer, which borrows nothing)
NotBorrowed_raw_pointer(r) == TRUE

\* A Source holds `loop_: &'l LoopRef`, and Loop's Deref lends that
\* reference from `&self`: the Loop can be moved (into_raw) or dropped only
\* when no Source borrowed from it is alive.
NotBorrowed(r) == Borrowers(r) = {}

\* Loop holds a raw pointer, so it is neither Send nor Sync: a Loop is used
\* on the thread th that made it, and so are the Sources borrowed from it.
\* Loop::from_raw: the caller hands over a valid raw loop it owns
Loop_from_raw(r, th) ==
    /\ Running
    /\ loops[r].owner = "caller" /\ loops[r].res = "alive"
    /\ loops' = [loops EXCEPT ![r].owner = "Loop", ![r].thread = th]
    /\ last' = NoOp
    /\ UNCHANGED <<status, nullLoop, source, reg, obs>>

\* Loop::new: from_raw(pw_loop_new(null)), whatever pw_loop_new returned
Loop_new(p, th) ==
    /\ Running
    /\ p = NativeLoopNew
    /\ IF p = NULL
       THEN /\ ~nullLoop
            /\ nullLoop' = TRUE
            /\ UNCHANGED loops
       ELSE /\ loops' = [loops EXCEPT ![p] = [NoLoop EXCEPT
                              !.res = "alive", !.owner = "Loop", !.thread = th]]
            /\ UNCHANGED nullLoop
    /\ last' = NoOp
    /\ UNCHANGED <<status, source, reg, obs>>

\* (mutation: into_raw returning self.ptr without ManuallyDrop, so that the
\* Loop is dropped as into_raw returns)
Loop_into_raw_dropping(r) ==
    [NativeLoopDestroy(r) EXCEPT ![r].owner = "caller", ![r].destroys = @ + 1]

\* Loop::into_raw: ManuallyDrop::new(self).ptr, so Drop does not run
Loop_into_raw_effect(r) == [loops EXCEPT ![r].owner = "caller"]

Loop_into_raw(r) ==
    /\ Running
    /\ HasLoop(r)
    /\ NotBorrowed(r)
    /\ loops' = Loop_into_raw_effect(r)
    /\ last' = NoOp
    /\ UNCHANGED <<status, nullLoop, source, reg, obs>>

\* Drop for Loop: pw_loop_destroy(self.ptr)
Loop_drop(r) ==
    /\ Running
    /\ HasLoop(r)
    /\ NotBorrowed(r)
    /\ loops' = [NativeLoopDestroy(r) EXCEPT ![r].owner = "none",
                                             ![r].destroys = @ + 1]
    /\ last' = NoOp
    /\ UNCHANGED <<status, nullLoop, source, reg, obs>>

\* A Loop wrapping NULL (new() after a failed allocation): into_raw gives the
\* null pointer back; Deref followed by any LoopRef method, and Drop
\* (pw_loop_destroy(NULL)), dereference it, which is undefined behaviour.
NullLoop_into_raw ==
    /\ Running
    /\ nullLoop
    /\ nullLoop' = FALSE
    /\ last' = NoOp
    /\ UNCHANGED <<status, loops, source, reg, obs>>

NullLoop_use ==
    /\ Running
    /\ nullLoop
    /\ status' = "ub"
    /\ last' = Op("null_deref", NULL, 0)
    /\ UNCHANGED <<nullLoop, loops, source, reg, obs>>

\* the caller destroys a raw loop that into_raw gave back to it
Caller_destroy(r) ==
    /\ Running
    /\ loops[r].owner = "caller" /\ loops[r].res = "alive"
    /\ loops' = NativeLoopDestroy(r)
    /\ last' = NoOp
    /\ UNCHANGED <<status, nullLoop, source, reg, obs>>

\* ------------------------------------------------------- enter, leave
\* spa_loop_control_methods.enter: the loop records the calling thread;
\* spa_loop_control_methods.leave: the record is cleared
NativeEnter(l, th) == [l EXCEPT !.entered = th]
NativeLeave(l) == [l EXCEPT !.entered = "none"]

\* (mutation: enter clearing the loop's registrations on its way)
LoopRef_enter_resetting(r) ==
    /\ Running
    /\ HasLoop(r)
    /\ loops' = [loops EXCEPT ![r] = NativeEnter(loops[r], loops[r].thread)]
    /\ reg' = [s \in Src |-> IF reg[s].loop = r THEN NoReg ELSE reg[s]]
    /\ last' = NoOp
    /\ UNCHANGED <<status, nullLoop, source, obs>>

\* LoopRef::enter: the native enter, and nothing else
LoopRef_enter_effect(r) == [loops EXCEPT ![r] = NativeEnter(loops[r], loops[r].thread)]

LoopRef_enter(r) ==
    /\ Running
    /\ HasLoop(r)
    /\ loops' = LoopRef_enter_effect(r)
    /\ last' = NoOp
    /\ UNCHANGED <<status, nullLoop, source, reg, obs>>

\* LoopRef::leave: the native leave, and nothing else; called after enter
LoopRef_leave_effect(r) == [loops EXCEPT ![r] = NativeLeave(loops[r])]

LoopRef_leave(r) ==
    /\ Running
    /\ HasLoop(r)
    /\ loops[r].entered # "none"
    /\ loops' = LoopRef_leave_effect(r)
    /\ last' = NoOp
    /\ UNCHANGED <<status, nullLoop, source, reg, obs>>

\* ------------------------------------------- native source registration
\* spa_loop_utils_methods.add_io (fd, mask, close = false, func, data)
NativeAddIo(r, mask) ==
    [NoReg EXCEPT !.registered = TRUE, !.kind = "io", !.loop = r, !.mask = mask]

\* spa_loop_utils_methods.add_idle (enabled, func, data)
NativeAddIdle(r, enabled) ==
    [NoReg EXCEPT !.registered = TRUE, !.kind = "idle", !.loop = r,
                  !.enabled = enabled]

\* spa_loop_utils_methods.add_signal (signal_number, func, data)
NativeAddSignal(r, signo) ==
    [NoReg EXCEPT !.registered = TRUE, !.kind = "signal", !.loop = r,
                  !.signo = signo]

\* spa_loop_utils_methods.add_event (func, data): nothing is pending yet
NativeAddEvent(r) ==
    [NoReg EXCEPT !.registered = TRUE, !.kind = "event", !.loop = r]

\* spa_loop_utils_methods.add_timer (func, data): the timer is not armed
NativeAddTimer(r) ==
    [NoReg EXCEPT !.registered = TRUE, !.kind = "timer", !.loop = r]

\* spa_loop_utils_methods.enable_idle (source, enabled)
NativeEnableIdle(rg, enabled) == [rg EXCEPT !.enabled = enabled]

\* spa_loop_utils_methods.signal_event (source): one more on the source's
\* counter; at the counter's ceiling the write is refused
NativeSignalEvent(rg) ==
    IF rg.count < MaxCount
    THEN [reg |-> [rg EXCEPT !.count = @ + 1], res |-> 0]
    ELSE [reg |-> rg, res |-> 0 - 11]

\* (tv_sec, tv_nsec) as a time span
TimespecNanos(ts) == ts.tv_sec * NanosPerSec + ts.tv_nsec

\* spa_loop_utils_methods.update_timer (source, value, interval, absolute =
\* false): a zero value disarms; otherwise the first expiry is `value` from
\* now and `interval` (zero: none) is the period of the later ones
NativeUpdateTimer(rg, value, interval) ==
    IF value.tv_nsec >= NanosPerSec \/ interval.tv_nsec >= NanosPerSec
    THEN [reg |-> rg, res |-> 0 - 22]
    ELSE [reg |-> [rg EXCEPT
                     !.clock = 0,
                     !.deadline = TimespecNanos(value),
                     !.interval = IF TimespecNanos(value) = 0 THEN 0
                                  ELSE TimespecNanos(interval)],
          res |-> 0]

\* spa_loop_utils_methods.destroy_source (source): the registration and all
\* its state are gone
NativeDestroySource(rg) ==
    [NoReg EXCEPT !.destroys = rg.destroys + 1]

\* ------------------------------------------------- source registration
FreeSlots == {s \in Src : ~Live(s)}
NextSlot(s) == s \in FreeSlots /\ \A u \in FreeSlots : s <= u

\* What the add_* methods share: box the callback state, call the native
\* add_* with the trampoline and the box's address, take the box back, and
\* expect a non-null source (ok); the panic of a null source unwinds and
\* frees the box.
\* (mutation: the box taken back only after the source was found non-null)
NullSource_leaked(kind, r) ==
    [NoSource EXCEPT !.state = "failed", !.kind = kind, !.loop = r,
                     !.data = "leaked"]

\* `(source, Box::from_raw(data))` comes before `.expect("source is NULL")`:
\* when the panic unwinds, the box is owned again and is freed, and no
\* Source was built whose Drop could run
NullSource(kind, r) ==
    [NoSource EXCEPT !.state = "failed", !.kind = kind, !.loop = r,
                     !.data = "freed"]

Register(s, r, kind, io, nreg, o, ok) ==
    /\ Running
    /\ HasLoop(r)
    /\ NextSlot(s)
    /\ IF ok
       THEN /\ source' = [source EXCEPT ![s] = [NoSource EXCEPT
                              !.state = "live", !.kind = kind, !.loop = r,
                              !.data = "boxed", !.io = io]]
            /\ reg' = [reg EXCEPT ![s] = nreg]
            /\ UNCHANGED status
       ELSE /\ source' = [source EXCEPT ![s] = NullSource(kind, r)]
            /\ reg' = [reg EXCEPT ![s] = NoReg]
            /\ status' = "panicked"
    /\ obs' = [obs EXCEPT ![s] = IF ok THEN o ELSE NoObs]
    /\ last' = NoOp
    /\ UNCHANGED <<loops, nullLoop>>

\* add_io takes `io: I` by value: an object moved into a Source is no longer
\* there to be given to another add_io
LoopRef_add_io(r, s, io, event_mask, ok) ==
    /\ \A u \in Src : Live(u) => source[u].io # io
    /\ Register(s, r, "io", io, NativeAddIo(r, event_mask), NoObs, ok)

LoopRef_add_idle(r, s, enabled, ok) ==
    Register(s, r, "idle", "none", NativeAddIdle(r, enabled),
             [NoObs EXCEPT !.enabled = enabled], ok)

\* utils::assert_main_thread: takes no argument, so what it asserts is about
\* the calling thread alone, and enter() stores nothing it could read
assert_main_thread(th) == th = "main"

\* (mutation: add_signal_local without the assertion)
LoopRef_add_signal_local_unchecked(r, s, signal, ok) ==
    Register(s, r, "signal", "none", NativeAddSignal(r, signal), NoObs, ok)

\* assert_main_thread() comes first
LoopRef_add_signal_local(r, s, signal, ok) ==
    IF assert_main_thread(loops[r].thread)
    THEN Register(s, r, "signal", "none", NativeAddSignal(r, signal), NoObs, ok)
    ELSE /\ Running
         /\ HasLoop(r)
         /\ NextSlot(s)
         /\ status' = "panicked"
         /\ last' = Op("add_signal_local", r, 0)
         /\ UNCHANGED <<loops, nullLoop, source, reg, obs>>

LoopRef_add_event(r, s, ok) ==
    Register(s, r, "event", "none", NativeAddEvent(r), NoObs, ok)

\* (mutation: add_timer arming the timer it creates)
LoopRef_add_timer_armed(r, s, ok) ==
    Register(s, r, "timer", "none", [NativeAddTimer(r) EXCEPT !.deadline = 1],
             NoObs, ok)

LoopRef_add_timer(r, s, ok) ==
    Register(s, r, "timer", "none", NativeAddTimer(r), NoObs, ok)

\* ------------------------------------------------------------ dispatch
\* whether the native loop finds the source ready
Ready(rg) ==
    /\ rg.registered
    /\ CASE rg.kind = "io" -> rg.mask \cap rg.rdy # {}
         [] rg.kind = "idle" -> rg.enabled
         [] rg.kind = "signal" -> rg.sigPending
         [] rg.kind = "event" -> rg.count > 0
         [] rg.kind = "timer" -> rg.deadline # 0 /\ rg.deadline <= rg.clock
         [] OTHER -> FALSE

\* expirations that a ready timer's descriptor reports when it is read
Expirations(rg) ==
    IF rg.interval = 0 THEN 1 ELSE 1 + (rg.clock - rg.deadline) \div rg.interval

\* the arguments the native loop passes to the source's function, after the
\* user data
NativeArgs(rg) ==
    CASE rg.kind = "io" -> <<rg.mask \cap rg.rdy>>
      [] rg.kind = "signal" -> <<rg.signo>>
      [] rg.kind = "event" -> <<rg.count>>
      [] rg.kind = "timer" -> <<Expirations(rg)>>
      [] OTHER -> <<>>

\* what dispatching a ready source consumes: an event's counter, a pending
\* signal, a timer's expirations.  A one-shot timer is then disarmed; a
\* periodic one goes on from its last expiry (the clock is counted from it),
\* the next one being an interval later
LastExpiry(rg) == rg.deadline + (Expirations(rg) - 1) * rg.interval

NativeConsume(rg) ==
    CASE rg.kind = "event" -> [rg EXCEPT !.count = 0]
      [] rg.kind = "timer" ->
           IF rg.interval = 0
           THEN [rg EXCEPT !.deadline = 0, !.clock = 0]
           ELSE [rg EXCEPT !.deadline = rg.interval,
                           !.clock = rg.clock - LastExpiry(rg)]
      [] rg.kind = "signal" -> [rg EXCEPT !.sigPending = FALSE]
      [] OTHER -> rg

\* The trampolines: what each call_closure passes to the user's closure.
\* (mutation: the io trampoline handing the callback a copy of the object)
call_closure_io_copy(sr, nargs) == <<"copy">>
call_closure_io(sr, nargs) == <<sr.io>>
call_closure_idle(nargs) == <<>>
call_closure_signal(nargs) == <<>>
call_closure_event(nargs) == <<>>
\* (mutation: the timer trampoline not passing the count on)
call_closure_timer_once(nargs) == <<1>>
call_closure_timer(nargs) == <<nargs[1]>>

call_closure(sr, kind, nargs) ==
    CASE kind = "io" -> call_closure_io(sr, nargs)
      [] kind = "idle" -> call_closure_idle(nargs)
      [] kind = "signal" -> call_closure_signal(nargs)
      [] kind = "event" -> call_closure_event(nargs)
      [] kind = "timer" -> call_closure_timer(nargs)

\* history, once the source's callback has run
Invoked(o, rg) ==
    CASE rg.kind = "event" -> [o EXCEPT !.signalled = 0]
      [] rg.kind \in {"timer", "idle"} -> [o EXCEPT !.fired = TRUE]
      [] OTHER -> o


\* (mutation: a Drop that does not deregister)
LoopRef_destroy_source_skipped(s) == reg

\* LoopRef::destroy_source, as the Drop of every Source calls it
LoopRef_destroy_source(s) == [reg EXCEPT ![s] = NativeDestroySource(reg[s])]

\* (mutation: the callback state freed before the source is deregistered)
DropOrder_fields_first == <<"free", "destroy_source">>

\* the body of Drop::drop runs first, the fields of the Source are dropped
\* after it
DropOrder == <<"destroy_source", "free">>

\* whether, at some point of a drop done in this order, the native loop
\* still holds the registration while the callback state is freed
Dangling(order) ==
    \E k \in 0..Len(order) :
        /\ \E i \in 1..k : order[i] = "free"
        /\ \A i \in 1..k : order[i] # "destroy_source"

\* Drop for IoSource, IdleSource, SignalSource, EventSource, TimerSource:
\* destroy_source(self), and then the fields (the callback box, an IoSource's
\* object) are freed.  On a loop that is gone the call is a use after free.
Source_drop(s) ==
    /\ Running
    /\ Live(s)
    /\ IF loops[source[s].loop].res = "alive"
       THEN /\ reg' = LoopRef_destroy_source(s)
            /\ last' = NoOp
            /\ UNCHANGED status
       ELSE /\ status' = "ub"
            /\ last' = Op("destroy_source", source[s].loop, 0)
            /\ UNCHANGED reg
    /\ source' = [source EXCEPT ![s] = [NoSource EXCEPT
                          !.state = "dropped", !.loop = source[s].loop,
                          !.data = "freed", !.wasReady = Ready(reg[s]),
                          !.dangling = Dangling(DropOrder)]]
    /\ obs' = [obs EXCEPT ![s] = NoObs]
    /\ UNCHANGED <<loops, nullLoop>>

\* ---------------------------------------------------------------- time
\* the time span a caller asks for
DurNanos(opt) == IF opt = None THEN 0 ELSE opt[1].secs * NanosPerSec + opt[1].nanos

\* the timers whose clock runs: those the native loop has armed, and those
\* asked to fire that have yet to
Ticking(s) ==
    /\ reg[s].registered /\ reg[s].kind = "timer"
    /\ \/ reg[s].deadline # 0
       \/ obs[s].reqV > 0 /\ (~obs[s].fired \/ obs[s].reqI > 0)

CanAdvance(w) == \A s \in Src : Ticking(s) => reg[s].clock + w <= MaxTime

Advance(w) ==
    [s \in Src |-> IF Ticking(s) THEN [reg[s] EXCEPT !.clock = @ + w] ELSE reg[s]]

\* time passes
Tick ==
    /\ Running
    /\ \E s \in Src : Ticking(s)
    /\ CanAdvance(1)
    /\ reg' = Advance(1)
    /\ last' = NoOp
    /\ UNCHANGED <<status, loops, nullLoop, source, obs>>

\* ------------------------------------------------------------- iterate
\* (mutation: the timeout taken up to the next millisecond)
as_millis_next(d) == d.secs * MillisPerSec + d.nanos \div NanosPerMilli + 1

\* Duration::as_millis
as_millis(d) == d.secs * MillisPerSec + d.nanos \div NanosPerMilli

ReadySet(rgs, r) == {s \in Src : rgs[s].loop = r /\ Ready(rgs[s])}

\* spa_loop_control_methods.iterate (timeout in ms) returns at once when a
\* source is ready, and otherwise at the first timer expiry within the
\* timeout, or when the timeout has passed
WaitTime(r, ms) ==
    IF ReadySet(reg, r) # {} THEN 0
    ELSE SetMin({ms * NanosPerMilli} \cup
                {reg[s].deadline - reg[s].clock : s \in {u \in Src :
                     /\ reg[u].registered /\ reg[u].loop = r
                     /\ reg[u].kind = "timer" /\ reg[u].deadline # 0}})

\* timeouts up to the largest that fits a c_int, and the first that does not
IterTimeouts ==
    {ZERO, Duration(0, 1), Duration(0, NanosPerMilli),
     Duration(CIntMax \div MillisPerSec, (CIntMax % MillisPerSec) * NanosPerMilli),
     Duration(CIntMax \div MillisPerSec + 1, 0)}

\* (mutation: the milliseconds cast to c_int, `as c_int`, instead of checked)
try_into_wrapping(ms) == Some(ms % (CIntMax + 1))

\* c_int::try_from(u128): the value when it fits, an error otherwise
try_into(ms) == IF ms <= CIntMax THEN Some(ms) ELSE None

\* spa_loop_control_methods.iterate fails with -EINTR when a signal
\* interrupts its wait
EINTR == 4

\* the orders in which the native loop may go through the ready sources
Orders(D) ==
    {o \in [1..Cardinality(D) -> D] : \A i, j \in DOMAIN o : o[i] = o[j] => i = j}

\* (mutation: a trampoline handing the callback to another thread and
\* returning before it has run)
call_closure_run_detached(s, th) == <<[ev |-> "start", src |-> s, thread |-> "worker"]>>

\* call_closure calls callback() and returns when the callback has returned:
\* the callback starts and ends on the thread the trampoline is called on
call_closure_run(s, th) ==
    <<[ev |-> "start", src |-> s, thread |-> th],
      [ev |-> "end", src |-> s, thread |-> th]>>

\* the native loop calls the trampolines of the ready sources in turn
RECURSIVE DispatchTrace(_, _)
DispatchTrace(o, th) ==
    IF o = <<>> THEN <<>>
    ELSE call_closure_run(Head(o), th) \o DispatchTrace(Tail(o), th)

\* LoopRef::iterate: the timeout as whole milliseconds must fit a c_int;
\* the native iterate then waits, dispatches the ready sources through their
\* trampolines and returns how many they were
\* (interrupted: a signal arrives while the native iterate waits)
LoopRef_iterate(r, timeout, interrupted) ==
    /\ Running
    /\ HasLoop(r)
    /\ LET c == try_into(as_millis(timeout))
       IN  IF c = None
           THEN /\ status' = "panicked"
                /\ last' = Op("iterate", r, 0)
                /\ UNCHANGED <<reg, obs>>
           ELSE IF interrupted
           THEN /\ ReadySet(reg, r) = {} /\ c[1] > 0
                /\ last' = Op("iterate", r, 0 - EINTR)
                /\ UNCHANGED <<status, reg, obs>>
           ELSE LET w == WaitTime(r, c[1])
                    rg == Advance(w)
                    D == ReadySet(rg, r)
                IN  /\ CanAdvance(w)
                    /\ reg' = [s \in Src |->
                                 IF s \in D THEN NativeConsume(rg[s]) ELSE rg[s]]
                    /\ obs' = [s \in Src |->
                                 IF s \in D THEN Invoked(obs[s], rg[s]) ELSE obs[s]]
                    /\ \E o \in Orders(D) :
                         last' = [op |-> "iterate", loop |-> r,
                                  ret |-> Cardinality(D),
                                  invoked |-> [s \in D |->
                                     [at |-> rg[s].clock,
                                      hist |-> obs[s],
                                      nargs |-> NativeArgs(rg[s]),
                                      cargs |-> call_closure(source[s], rg[s].kind,
                                                             NativeArgs(rg[s]))]],
                                  waited |-> w, src |-> NULL, native |-> <<>>,
                                  result |-> <<>>, prior |-> <<>>,
                                  trace |-> DispatchTrace(o, loops[r].thread)]
                    /\ UNCHANGED status
    /\ UNCHANGED <<loops, nullLoop, source>>

\* ----------------------------------------------------- source methods
\* (mutation: enable not passing its flag on)
IdleSource_enable_call_always(rg, enable) == NativeEnableIdle(rg, TRUE)

\* IdleSource::enable: enable_idle(self.as_ptr(), enable)
IdleSource_enable_call(rg, enable) == NativeEnableIdle(rg, enable)

\* (mutation: enable reaching every idle source of the loop)
IdleSource_enable_all(s, enable) ==
    /\ Running
    /\ Live(s) /\ source[s].kind = "idle"
    /\ reg' = [u \in Src |->
                 IF reg[u].registered /\ reg[u].kind = "idle"
                    /\ reg[u].loop = reg[s].loop
                 THEN IdleSource_enable_call(reg[u], enable) ELSE reg[u]]
    /\ obs' = [obs EXCEPT ![s].enabled = enable]
    /\ last' = NoOp
    /\ UNCHANGED <<status, loops, nullLoop, source>>

IdleSource_enable(s, enable) ==
    /\ Running
    /\ Live(s) /\ source[s].kind = "idle"
    /\ reg' = [reg EXCEPT ![s] = IdleSource_enable_call(reg[s], enable)]
    /\ obs' = [obs EXCEPT ![s].enabled = enable]
    /\ last' = NoOp
    /\ UNCHANGED <<status, loops, nullLoop, source>>

\* SpaResult::from_c: the native code, wrapped
SpaResult_from_c(res) == <<"SpaResult", res>>

\* one call of a native method: what it leaves behind, the code it returns,
\* and the codes of the native calls made so far
Call(out) == [reg |-> out.reg, res |-> out.res, log |-> <<out.res>>]

\* (mutation: a failed native call made a second time)
Retried(c, again) ==
    IF c.res < 0 THEN [Call(again) EXCEPT !.log = c.log \o @] ELSE c

\* (mutation: signal not reaching the native loop)
EventSource_signal_call_skipped(rg) == [reg |-> rg, res |-> 0, log |-> <<>>]

\* (mutation: signal trying again when the native call fails)
EventSource_signal_call_retried(rg) ==
    Retried(Call(NativeSignalEvent(rg)), NativeSignalEvent(rg))

\* EventSource::signal: signal_event(self.as_ptr()), its result returned
EventSource_signal_call(rg) == Call(NativeSignalEvent(rg))

EventSource_signal(s) ==
    /\ Running
    /\ Live(s) /\ source[s].kind = "event"
    /\ obs[s].signalled <= MaxCount
    /\ reg' = [reg EXCEPT ![s] = EventSource_signal_call(reg[s]).reg]
    /\ obs' = [obs EXCEPT ![s].signalled = @ + 1]
    /\ last' = [Op("signal", source[s].loop, 0)
                   EXCEPT !.src = s,
                          !.native = EventSource_signal_call(reg[s]).log,
                          !.result = SpaResult_from_c(
                                        EventSource_signal_call(reg[s]).res)]
    /\ UNCHANGED <<status, loops, nullLoop, source>>

\* (mutation: an absent time span taken for the shortest one)
unwrap_or_shortest(opt) == IF opt = None THEN Duration(0, 1) ELSE opt[1]

\* Option::unwrap_or_default on an Option<Duration>
unwrap_or_default(opt) == IF opt = None THEN ZERO ELSE opt[1]

\* duration_to_timespec: as_secs() must fit an i64 ("Duration too long");
\* subsec_nanos() always fits
FitsI64(d) == d.secs <= I64Max
\* (mutation: the whole time span put into tv_nsec)
duration_to_timespec_unsplit(d) ==
    [tv_sec |-> 0, tv_nsec |-> d.secs * NanosPerSec + d.nanos]
duration_to_timespec(d) == [tv_sec |-> d.secs, tv_nsec |-> d.nanos]

\* (mutations: value and interval handed over in the wrong order; the
\* interval not handed over)
TimerSource_update_timer_call_swapped(rg, value, interval) ==
    Call(NativeUpdateTimer(rg, duration_to_timespec(unwrap_or_default(interval)),
                           duration_to_timespec(unwrap_or_default(value))))
TimerSource_update_timer_call_no_interval(rg, value, interval) ==
    Call(NativeUpdateTimer(rg, duration_to_timespec(unwrap_or_default(value)),
                           duration_to_timespec(ZERO)))

\* (mutation: `true` passed for absolute, the value counted from the
\* clock's origin and not from the call)
TimerSource_update_timer_call_absolute(rg, value, interval) ==
    LET out == Call(NativeUpdateTimer(rg,
                       duration_to_timespec(unwrap_or_default(value)),
                       duration_to_timespec(unwrap_or_default(interval))))
    IN  [out EXCEPT !.reg.clock = rg.clock]

\* the native call of update_timer: (self.as_ptr(), &value, &interval, false)
TimerSource_update_timer_call(rg, value, interval) ==
    Call(NativeUpdateTimer(rg, duration_to_timespec(unwrap_or_default(value)),
                           duration_to_timespec(unwrap_or_default(interval))))

\* history: the request made of the timer
Requested(o, value, interval) ==
    [o EXCEPT !.reqV = DurNanos(value),
              !.reqI = IF DurNanos(value) = 0 THEN 0 ELSE DurNanos(interval),
              !.fired = FALSE,
              !.everArmed = @ \/ DurNanos(value) > 0]

TimerValues ==
    {None, Some(ZERO), Some(Duration(0, 1)), Some(Duration(1, 0)),
     Some(Duration(I64Max + 1, 0))}
TimerIntervals ==
    {None, Some(ZERO), Some(Duration(0, 1)), Some(Duration(I64Max + 1, 0))}

TimerSource_update_timer(s, value, interval) ==
    /\ Running
    /\ Live(s) /\ source[s].kind = "timer"
    /\ IF ~FitsI64(unwrap_or_default(value)) \/ ~FitsI64(unwrap_or_default(interval))
       THEN /\ status' = "panicked"
            /\ last' = [Op("update_timer", source[s].loop, 0) EXCEPT !.src = s]
            /\ UNCHANGED <<reg, obs>>
       ELSE LET out == TimerSource_update_timer_call(reg[s], value, interval)
            IN  /\ reg' = [reg EXCEPT ![s] = out.reg]
                /\ obs' = [obs EXCEPT ![s] = Requested(obs[s], value, interval)]
                /\ last' = [Op("update_timer", source[s].loop, 0)
                               EXCEPT !.src = s, !.native = out.log,
                                      !.result = SpaResult_from_c(out.res),
                                      !.prior = <<reg[s].deadline # 0,
                                                  obs[s].fired>>]
                /\ UNCHANGED status
    /\ UNCHANGED <<loops, nullLoop, source>>

\* --------------------------------------------------------- environment
\* the descriptor of an IoSource's object becomes readable and/or writable,
\* or stops being so
Fd_ready(s, bits) ==
    /\ Running
    /\ Live(s) /\ source[s].kind = "io"
    /\ bits # reg[s].rdy
    /\ reg' = [reg EXCEPT ![s].rdy = bits]
    /\ last' = NoOp
    /\ UNCHANGED <<status, loops, nullLoop, source, obs>>

\* the process receives a signal
Kill(sig) ==
    /\ Running
    /\ \E s \in Src : reg[s].registered /\ reg[s].kind = "signal"
                      /\ reg[s].signo = sig /\ ~reg[s].sigPending
    /\ reg' = [s \in Src |->
                 IF reg[s].registered /\ reg[s].kind = "signal" /\ reg[s].signo = sig
                 THEN [reg[s] EXCEPT !.sigPending = TRUE] ELSE reg[s]]
    /\ last' = NoOp
    /\ UNCHANGED <<status, loops, nullLoop, source, obs>>

\* ------------------------------------------------------- specification
Next ==
    \/ \E p \in Res \cup {NULL} : Loop_new(p, "main")
    \/ \E r \in Res : Loop_from_raw(r, "main")
    \/ \E r \in Res : Loop_into_raw(r)
    \/ \E r \in Res : Loop_drop(r)
    \/ NullLoop_into_raw
    \/ NullLoop_use
    \/ \E r \in Res : Caller_destroy(r)
    \/ \E r \in Res, s \in Src, io \in IoObjects, m \in IoMasks,
          ok \in BOOLEAN : LoopRef_add_io(r, s, io, m, ok)
    \/ \E r \in Res, s \in Src, e \in BOOLEAN, ok \in BOOLEAN :
          LoopRef_add_idle(r, s, e, ok)
    \/ \E r \in Res, s \in Src, sig \in Signals, ok \in BOOLEAN :
          LoopRef_add_signal_local(r, s, sig, ok)
    \/ \E r \in Res, s \in Src, ok \in BOOLEAN : LoopRef_add_event(r, s, ok)
    \/ \E r \in Res, s \in Src, ok \in BOOLEAN : LoopRef_add_timer(r, s, ok)
    \/ \E s \in Src : Source_drop(s)
    \/ \E r \in Res, d \in IterTimeouts : LoopRef_iterate(r, d, FALSE)
    \/ \E s \in Src, e \in BOOLEAN : IdleSource_enable(s, e)
    \/ \E s \in Src : EventSource_signal(s)
    \/ \E s \in Src, v \in TimerValues, i \in TimerIntervals :
          TimerSource_update_timer(s, v, i)
    \/ Tick
    \/ \E s \in Src, bits \in IoConditions : Fd_ready(s, bits)
    \/ \E sig \in Signals : Kill(sig)

\* Every Loop made and used on the main thread, no wait interrupted.
Spec == Init /\ [][Next]_vars

\* One Loop, made on either thread, with enter and leave, and with signals
\* that interrupt the native wait.
FirstRes == SetMin(Res)

NextOneLoop ==
    \/ \E th \in Threads : Loop_new(FirstRes, th)
    \/ \E r \in Res, th \in Threads : Loop_from_raw(r, th)
    \/ \E r \in Res : Loop_into_raw(r)
    \/ \E r \in Res : Loop_drop(r)
    \/ \E r \in Res : Caller_destroy(r)
    \/ \E r \in Res : LoopRef_enter(r)
    \/ \E r \in Res : LoopRef_leave(r)
    \/ \E r \in Res, s \in Src, io \in IoObjects, m \in IoMasks,
          ok \in BOOLEAN : LoopRef_add_io(r, s, io, m, ok)
    \/ \E r \in Res, s \in Src, e \in BOOLEAN, ok \in BOOLEAN :
          LoopRef_add_idle(r, s, e, ok)
    \/ \E r \in Res, s \in Src, sig \in Signals, ok \in BOOLEAN :
          LoopRef_add_signal_local(r, s, sig, ok)
    \/ \E r \in Res, s \in Src, ok \in BOOLEAN : LoopRef_add_event(r, s, ok)
    \/ \E r \in Res, s \in Src, ok \in BOOLEAN : LoopRef_add_timer(r, s, ok)
    \/ \E s \in Src : Source_drop(s)
    \/ \E r \in Res, d \in IterTimeouts, b \in BOOLEAN :
          LoopRef_iterate(r, d, b)
    \/ \E s \in Src, e \in BOOLEAN : IdleSource_enable(s, e)
    \/ \E s \in Src : EventSource_signal(s)
    \/ \E s \in Src, v \in TimerValues, i \in TimerIntervals :
          TimerSource_update_timer(s, v, i)
    \/ Tick
    \/ \E s \in Src, bits \in IoConditions : Fd_ready(s, bits)
    \/ \E sig \in Signals : Kill(sig)

SpecOneLoop == Init /\ [][NextOneLoop]_vars

\* ================================================================ claims
\* an iterate() has just returned
IterateDone == last.op = "iterate" /\ status = "running"
\* the sources whose callbacks it invoked
InvokedSet == DOMAIN last.invoked
\* the live sources of a kind on the loop that was iterated
OnLoop(kind) ==
    {s \in Src : Live(s) /\ source[s].kind = kind /\ source[s].loop = last.loop}

\* C1: every live Source belongs to a Loop whose native resource exists and
\* is still owned by that Loop (neither dropped nor released by into_raw),
\* and no Source's drop ran destroy_source on a destroyed loop.
C1_SourcesWithinLoop ==
    /\ \A s \in Src : Live(s) =>
          /\ loops[source[s].loop].res = "alive"
          /\ loops[source[s].loop].owner = "Loop"
    /\ ~(status = "ub" /\ last.op = "destroy_source")

\* a Loop was dropped after a Source of it had been
C1_Witness ==
    \E s \in Src :
        /\ source[s].state = "dropped"
        /\ loops[source[s].loop].res = "destroyed"
        /\ loops[source[s].loop].destroys = 1
        /\ \E u \in Src : Live(u)

\* C2: an iterate() invokes only callbacks of live Sources, whose callback
\* state is allocated; a dropped Source is deregistered by its drop, by
\* exactly one destroy_source.
C2_NoCallbackAfterDrop ==
    /\ \A s \in InvokedSet : Live(s) /\ source[s].data = "boxed"
    /\ \A s \in Src : source[s].state = "dropped" =>
          ~reg[s].registered /\ reg[s].destroys = 1

\* a Source that was ready was dropped, and its loop was iterated afterwards
C2_Witness ==
    /\ IterateDone
    /\ \E s \in Src :
          /\ source[s].state = "dropped" /\ source[s].wasReady
          /\ source[s].loop = last.loop

\* C3: an iterate() invokes the callback of an idle source (once) exactly
\* when the source is enabled, by add_idle or by the last enable().
C3_IdleWhileEnabled ==
    IterateDone => \A s \in OnLoop("idle") : obs[s].enabled <=> s \in InvokedSet

\* an idle source that has run, was disabled, and is left out by an iterate()
C3_Witness ==
    /\ IterateDone
    /\ \E s \in OnLoop("idle") :
          obs[s].fired /\ ~obs[s].enabled /\ s \notin InvokedSet

\* C4: an iterate() invokes the callback of an event source (once) exactly
\* when signal() was called, K >= 1 times, since the callback last ran:
\* afterwards no signal of a source on that loop waits for a later iterate().
C4_EventCoalesced ==
    IterateDone => \A s \in OnLoop("event") :
        /\ obs[s].signalled = 0
        /\ s \in InvokedSet => last.invoked[s].hist.signalled >= 1

\* two or more signal() calls gave one invocation
C4_Witness ==
    /\ IterateDone
    /\ \E s \in OnLoop("event") :
          s \in InvokedSet /\ last.invoked[s].hist.signalled >= 2

\* the expirations a timer's requests call for when it is dispatched `at`
\* after it was set (not yet fired) or after its last expiry (fired)
ExpectedExpirations(h, at) ==
    IF h.fired THEN at \div h.reqI
    ELSE IF h.reqI = 0 THEN 1 ELSE 1 + (at - h.reqV) \div h.reqI

\* C5 as claimed: the callback of an event source is passed the number K of
\* signal() calls since it last ran, and the callback of a timer source the
\* number of expirations since it last ran.
C5_CountPassedToBoth ==
    IterateDone => \A s \in InvokedSet :
        /\ source[s].kind = "event" =>
               last.invoked[s].cargs = <<last.invoked[s].hist.signalled>>
        /\ source[s].kind = "timer" =>
               last.invoked[s].cargs =
                  <<ExpectedExpirations(last.invoked[s].hist, last.invoked[s].at)>>

\* C5 amended: the callback of a timer source is passed the number of
\* expirations since it last ran; the callback of an event source is passed
\* nothing (the count the native loop reports stays in the trampoline).
C5_CountPassedToTimer ==
    IterateDone => \A s \in InvokedSet :
        /\ source[s].kind = "event" =>
               /\ last.invoked[s].cargs = <<>>
               /\ last.invoked[s].nargs[1] >= 1
        /\ source[s].kind = "timer" =>
               last.invoked[s].cargs =
                  <<ExpectedExpirations(last.invoked[s].hist, last.invoked[s].at)>>

\* a timer callback passed two or more expirations, and an event callback
\* run after two or more signals
C5_Witness ==
    /\ IterateDone
    /\ \E s \in InvokedSet :
          source[s].kind = "timer" /\ last.invoked[s].cargs[1] >= 2
    /\ \E s \in InvokedSet :
          source[s].kind = "event" /\ last.invoked[s].hist.signalled >= 2

\* C6: a timer that update_timer has not armed since add_timer is not
\* armed, and no iterate() invokes its callback.
C6_TimerStartsDisarmed ==
    \A s \in Src : Live(s) /\ source[s].kind = "timer" /\ ~obs[s].everArmed =>
        /\ reg[s].deadline = 0
        /\ ~obs[s].fired
        /\ s \notin InvokedSet

\* an iterate() ran the callback of an armed timer and left out a timer of
\* the same loop that was never armed
C6_Witness ==
    /\ IterateDone
    /\ \E s \in OnLoop("timer"), u \in OnLoop("timer") :
          /\ ~obs[s].everArmed /\ s \notin InvokedSet
          /\ u \in InvokedSet

\* the live timers asked to fire once (interval absent or zero), and those
\* asked to fire periodically
OneShot(s) ==
    Live(s) /\ source[s].kind = "timer" /\ obs[s].reqV > 0 /\ obs[s].reqI = 0
Periodic(s) ==
    Live(s) /\ source[s].kind = "timer" /\ obs[s].reqV > 0 /\ obs[s].reqI > 0

\* C7: a timer set with value V > 0 and no interval stays armed for V until
\* it fires and is disarmed from then on; an iterate() invokes its callback
\* only if it has not fired since it was set and V has elapsed, and leaves
\* it unfired only if V has not elapsed.
C7_OneShotFiresOnce ==
    /\ \A s \in Src : OneShot(s) =>
          reg[s].deadline = (IF obs[s].fired THEN 0 ELSE obs[s].reqV)
    /\ IterateDone => \A s \in OnLoop("timer") :
          /\ s \in InvokedSet /\ last.invoked[s].hist.reqI = 0 =>
                /\ ~last.invoked[s].hist.fired
                /\ last.invoked[s].at >= last.invoked[s].hist.reqV
                /\ last.invoked[s].hist.reqV > 0
          /\ OneShot(s) /\ ~obs[s].fired => reg[s].clock < obs[s].reqV

\* a one-shot timer that has fired is left out by an iterate() of its loop
C7_Witness ==
    /\ IterateDone
    /\ \E s \in OnLoop("timer") :
          OneShot(s) /\ obs[s].fired /\ s \notin InvokedSet

\* C8: a timer set with value V > 0 and interval I > 0 stays armed with
\* period I; an iterate() invokes its callback only once V has elapsed since
\* it was set (first time) or I since its last expiry (later times), and
\* leaves no expiry that is due undelivered.
C8_PeriodicKeepsFiring ==
    /\ \A s \in Src : Periodic(s) =>
          /\ reg[s].interval = obs[s].reqI
          /\ reg[s].deadline = (IF obs[s].fired THEN obs[s].reqI ELSE obs[s].reqV)
    /\ IterateDone => \A s \in OnLoop("timer") :
          /\ s \in InvokedSet /\ last.invoked[s].hist.reqI > 0 =>
                last.invoked[s].at >=
                   (IF last.invoked[s].hist.fired THEN last.invoked[s].hist.reqI
                    ELSE last.invoked[s].hist.reqV)
          /\ Periodic(s) =>
                reg[s].clock < (IF obs[s].fired THEN obs[s].reqI ELSE obs[s].reqV)

\* a periodic timer fires again, an interval after it fired
C8_Witness ==
    /\ IterateDone
    /\ \E s \in InvokedSet :
          /\ source[s].kind = "timer"
          /\ last.invoked[s].hist.fired /\ last.invoked[s].hist.reqI > 0

\* C9: a timer last set with a value of None or zero is disarmed, whatever
\* the interval and the schedule before, and no iterate() invokes its
\* callback; an interval of None or zero leaves no period.
C9_ZeroValueDisarms ==
    \A s \in Src : Live(s) /\ source[s].kind = "timer" =>
        /\ obs[s].reqV = 0 =>
              /\ reg[s].deadline = 0 /\ reg[s].interval = 0
              /\ s \notin InvokedSet
        /\ obs[s].reqI = 0 => reg[s].interval = 0

\* a timer that had been armed, and was set with a value of None or zero, is
\* left out by an iterate() of its loop
C9_Witness ==
    /\ IterateDone
    /\ \E s \in OnLoop("timer") :
          obs[s].everArmed /\ obs[s].reqV = 0 /\ s \notin InvokedSet

\* C10: the wrapper destroys a native loop at most once: never while a Loop
\* owns it or after into_raw gave it back to the caller, and once when the
\* Loop that owns it is dropped.
C10_DestroyedOnce ==
    \A r \in Res :
        /\ loops[r].destroys <= 1
        /\ loops[r].owner = "Loop" => loops[r].res = "alive" /\ loops[r].destroys = 0
        /\ loops[r].owner = "caller" => loops[r].destroys = 0
        /\ loops[r].owner = "none" /\ loops[r].res # "unalloc" =>
              loops[r].res = "destroyed" /\ loops[r].destroys = 1

\* one Loop was dropped, and another released by into_raw is still alive
C10_Witness ==
    \E r \in Res, q \in Res :
        /\ loops[r].owner = "none" /\ loops[r].destroys = 1
        /\ loops[q].owner = "caller" /\ loops[q].res = "alive"

\* ---------------------------------------------------------------- C11
\* C11: Loop::new() fails when the native allocation returns null, so no Loop
\* value wraps a null resource and no operation or drop is performed on a
\* null resource.
C11_NoNullLoop ==
    /\ ~nullLoop
    /\ ~(status = "ub" /\ last.op = "null_deref")

\* ---------------------------------------------------------------- C12
\* add_signal_local stopped at its assertion, before anything was registered
AssertionFailed == status = "panicked" /\ last.op = "add_signal_local"

WholeMillis(d) == (d.secs * NanosPerSec + d.nanos) \div NanosPerMilli

\* C13: iterate(timeout) panics exactly when the timeout in whole
\* milliseconds does not fit the native c_int; the panic comes before the
\* native iterate, so no callback is dispatched and no source state changes;
\* a timeout that fits does not make it panic.
C13_PanicsOnOverflow ==
    [][\A d \in IterTimeouts, b \in BOOLEAN :
          last'.op = "iterate" /\ LoopRef_iterate(last'.loop, d, b) =>
             IF WholeMillis(d) > CIntMax
             THEN /\ status' = "panicked"
                  /\ last'.invoked = <<>> /\ last'.trace = <<>>
                  /\ UNCHANGED <<source, reg, obs>>
             ELSE status' = "running"]_vars

\* iterate has panicked on a loop with a source ready to be dispatched
C13_Witness ==
    /\ status = "panicked" /\ last.op = "iterate"
    /\ ReadySet(reg, last.loop) # {}

\* ---------------------------------------------------------------- C14
\* C14: iterate() returns the number of ready sources whose callbacks it
\* dispatched during the call, never a negative value, whatever the native
\* iterate call does.
C14_CountReturned ==
    IterateDone => /\ last.ret = Cardinality(InvokedSet)
                   /\ last.ret >= 0

\* ---------------------------------------------------------------- C15
\* the values of std::time::Duration, up to the first whole second whose
\* milliseconds do not fit a c_int
Durations ==
    {Duration(s, n) : s \in 0..(CIntMax \div MillisPerSec + 1),
                      n \in 0..(NanosPerSec - 1)}

\* C15: iterate() accepts a negative timeout, which makes it block until a
\* source is ready: on a Loop, some timeout that iterate takes reaches the
\* native iterate as a negative number of milliseconds.
C15_NegativeTimeoutAccepted ==
    \A r \in Res : HasLoop(r) =>
        \E d \in Durations : /\ try_into(as_millis(d)) # None
                             /\ try_into(as_millis(d))[1] < 0

\* ---------------------------------------------------------------- C16
\* C16: iterate(t) never waits past the timeout it is given: with no source
\* ready it returns after blocking at most t, and iterate(0) returns without
\* waiting at all.
C16_WaitWithinTimeout ==
    [][\A d \in IterTimeouts, b \in BOOLEAN :
          last'.op = "iterate" /\ LoopRef_iterate(last'.loop, d, b) =>
             /\ last'.waited <= d.secs * NanosPerSec + d.nanos
             /\ d = ZERO => last'.waited = 0]_vars

\* iterate has returned after waiting, with no source ready in the end
C16_Witness ==
    /\ IterateDone /\ last.ret = 0
    /\ last.waited > 0
    /\ \E s \in Src : Live(s) /\ source[s].loop = last.loop

\* ---------------------------------------------------------------- C17
\* signal() or update_timer() has returned
CallDone == status = "running" /\ last.op \in {"signal", "update_timer"}

\* the code the native signal_event gives for the signal() call just made:
\* it refuses the one that comes after MaxCount unconsumed signals
SignalCode(s) == IF obs[s].signalled > MaxCount THEN 0 - 11 ELSE 0

\* C17: signal() and update_timer() call the native operation exactly once
\* and return a result that holds exactly the code it returned; a failing
\* code is returned, not retried, and the source stays registered.
C17_ResultUnmodified ==
    CallDone =>
       /\ Len(last.native) = 1
       /\ last.result = <<"SpaResult", last.native[1]>>
       /\ last.op = "signal" => last.native[1] = SignalCode(last.src)
       /\ last.op = "update_timer" => last.native[1] = 0
       /\ Live(last.src) /\ reg[last.src].registered

\* signal() has returned the failure of the native call
C17_Witness ==
    /\ CallDone /\ last.op = "signal"
    /\ last.result = <<"SpaResult", 0 - 11>>

\* ---------------------------------------------------------------- C18
\* the callbacks that have started and not ended after k steps of a trace
InFlight(t, k) ==
    {s \in Src : Cardinality({i \in 1..k : t[i].src = s /\ t[i].ev = "start"})
                 > Cardinality({i \in 1..k : t[i].src = s /\ t[i].ev = "end"})}

\* C18: callbacks run only inside an iterate() call, on the thread that
\* called it, and one at a time: never two callbacks of the Loop in flight,
\* and a callback that has started ends before the next one starts.
C18_OneCallbackAtATime ==
    /\ last.op # "iterate" => last.trace = <<>> /\ last.invoked = <<>>
    /\ IterateDone =>
          LET t == last.trace
          IN  /\ \A k \in 0..Len(t) : Cardinality(InFlight(t, k)) <= 1
              /\ InFlight(t, Len(t)) = {}
              /\ \A i \in DOMAIN t :
                    /\ t[i].thread = loops[last.loop].thread
                    /\ t[i].ev = "start" =>
                          /\ i < Len(t)
                          /\ t[i + 1] = [t[i] EXCEPT !.ev = "end"]
              /\ \A s \in InvokedSet :
                    Cardinality({i \in DOMAIN t : t[i].src = s /\ t[i].ev = "start"}) = 1
              /\ \A i \in DOMAIN t : t[i].src \in InvokedSet

\* one iterate() on a Loop of the other thread has run two callbacks
C18_Witness ==
    /\ IterateDone
    /\ Cardinality(InvokedSet) >= 2
    /\ Len(last.trace) >= 4
    /\ loops[last.loop].thread = "other"

\* ---------------------------------------------------------------- C19
\* C19: enter() and leave() only do the bookkeeping of the Loop's thread:
\* they do not wait, dispatch no callback, and leave the registered sources
\* and every source's enabled, pending-signal and timer state as they were.
C19_EnterLeaveOnlyBookkeeping ==
    [][\A r \in Res :
          LoopRef_enter(r) \/ LoopRef_leave(r) =>
             /\ UNCHANGED <<status, source, reg, obs>>
             /\ last'.invoked = <<>> /\ last'.trace = <<>> /\ last'.waited = 0
             /\ \A q \in Res : [loops'[q] EXCEPT !.entered = "none"]
                               = [loops[q] EXCEPT !.entered = "none"]]_vars

\* a Loop is entered while one of its sources is due and still undispatched
C19_Witness ==
    \E r \in Res : /\ HasLoop(r) /\ loops[r].entered # "none"
                   /\ ReadySet(reg, r) # {}
                   /\ last = NoOp

\* ---------------------------------------------------------------- C20
\* C20: an add_io callback is given the very object that was passed to its
\* add_io call, not another source's and not a copy, and it is invoked only
\* when the readiness mask registered for it is satisfied on the object's
\* descriptor.
C20_IoObjectIdentity ==
    IterateDone =>
       \A s \in InvokedSet : source[s].kind = "io" =>
          /\ last.invoked[s].cargs = <<source[s].io>>
          /\ source[s].io \in IoObjects
          /\ \A u \in Src \ {s} : Live(u) => source[u].io # last.invoked[s].cargs[1]
          /\ reg[s].mask \cap reg[s].rdy # {}
          /\ last.invoked[s].nargs = <<reg[s].mask \cap reg[s].rdy>>

\* one iterate() has run the callbacks of two IoSources, each on its object
C20_Witness ==
    /\ IterateDone
    /\ \E s, u \in InvokedSet :
          /\ s # u /\ source[s].kind = "io" /\ source[u].kind = "io"
          /\ last.invoked[s].cargs # last.invoked[u].cargs

\* ---------------------------------------------------------------- C21
\* C21: when the native provider returns a null source from add_io,
\* add_idle, add_signal, add_event or add_timer, the registration panics: no
\* Source is returned, destroy_source is never called for it, and the
\* callback state allocated for it is freed, not leaked.
C21_NullSourcePanics ==
    /\ \A s \in Src : source[s].state = "failed" =>
          /\ status = "panicked"
          /\ source[s].data = "freed" /\ source[s].io = "none"
          /\ ~reg[s].registered /\ reg[s].destroys = 0
    /\ \A s \in Src : Live(s) /\ status = "running" => reg[s].registered

\* an add_io has met a null source while another Source is live
C21_Witness ==
    \E s, u \in Src : /\ source[s].state = "failed" /\ source[s].kind = "io"
                      /\ Live(u) /\ reg[u].registered

\* ---------------------------------------------------------------- C22
\* C22: the drop of a Source deregisters it from the native loop before its
\* callback state (and an IoSource's object) is freed: the native loop never
\* holds a registration whose callback state is freed, so no dispatch
\* reaches freed callback state.
C22_DestroyBeforeFree ==
    /\ \A s \in Src : ~source[s].dangling
    /\ \A s \in Src : reg[s].registered => source[s].data = "boxed"
    /\ IterateDone => \A s \in InvokedSet : source[s].data = "boxed"

\* a Source that was ready to be dispatched has been dropped
C22_Witness ==
    \E s \in Src : /\ source[s].state = "dropped" /\ source[s].wasReady
                   /\ source[s].data = "freed" /\ ~reg[s].registered
                   /\ status = "running"

\* ---------------------------------------------------------------- C23
\* a step of enable(), signal(), update_timer() or drop on the Source s
ActsOn(s) ==
    \/ \E e \in BOOLEAN : IdleSource_enable(s, e)
    \/ EventSource_signal(s)
    \/ \E v \in TimerValues, i \in TimerIntervals : TimerSource_update_timer(s, v, i)
    \/ Source_drop(s)

\* C23: enable(), signal(), update_timer() and drop act on one Source only:
\* every other Source stays registered with its callback state, enabled
\* flag, pending signals and timer schedule unchanged; and each live Source
\* has a callback state of its own.
C23_OtherSourcesUntouched ==
    /\ [][\A s \in Src : ActsOn(s) =>
             \A u \in Src \ {s} : /\ reg'[u] = reg[u]
                                  /\ source'[u] = source[u]
                                  /\ obs'[u] = obs[u]]_vars
    /\ [](\A s \in Src : Live(s) =>
             /\ source[s].data = "boxed"
             /\ \A u \in Src \ {s} :
                   Live(u) /\ source[s].kind = "io" => source[u].io # source[s].io)

\* signal() has been called on one Source while another Source of the same
\* Loop is armed, enabled or pending
C23_Witness ==
    /\ last.op = "signal" /\ status = "running"
    /\ \E u \in Src \ {last.src} :
          /\ Live(u) /\ source[u].loop = last.loop
          /\ \/ reg[u].deadline # 0
             \/ reg[u].enabled
             \/ reg[u].count > 0

\* ---------------------------------------------------------------- C24
\* update_timer() has returned
UpdateDone == status = "running" /\ last.op = "update_timer"

\* C24: update_timer on a timer that is armed, or has fired, replaces its
\* schedule: after update_timer(V2, I2) the timer is due V2 after that call
\* and every I2 from then on, whatever it was due at before; its callback is
\* invoked on the new schedule only, and a one-shot timer armed again after
\* it fired fires once more and is disarmed again.
C24_ScheduleReplaced ==
    /\ UpdateDone =>
          /\ reg[last.src].clock = 0
          /\ reg[last.src].deadline = obs[last.src].reqV
          /\ reg[last.src].interval = obs[last.src].reqI
          /\ ~obs[last.src].fired
    /\ IterateDone => \A s \in InvokedSet : source[s].kind = "timer" =>
          LET h == last.invoked[s].hist
          IN  /\ h.reqV > 0
              /\ last.invoked[s].at >= (IF h.fired THEN h.reqI ELSE h.reqV)
              /\ h.fired => h.reqI > 0
              /\ last.invoked[s].nargs = <<ExpectedExpirations(h, last.invoked[s].at)>>
              /\ reg[s].deadline = h.reqI
              /\ obs[s].fired

\* update_timer has given a new schedule to a timer that was armed
C24_Witness ==
    /\ UpdateDone
    /\ last.prior[1]
    /\ reg[last.src].deadline # 0

\* ---------------------------------------------------------------- C25
\* the whole seconds of the time span a caller gives (none: zero)
WholeSecs(opt) == IF opt = None THEN 0 ELSE opt[1].secs

\* C25: update_timer panics when the whole seconds of value or interval do
\* not fit an i64, before the native update_timer is called, so the timer's
\* schedule is unchanged; when they fit, the native layer gets exactly the
\* time spans given, with nanoseconds below one second: it accepts them and
\* the timer is set to them.
C25_TimespecExact ==
    [][\A v \in TimerValues, i \in TimerIntervals :
          last'.op = "update_timer"
          /\ TimerSource_update_timer(last'.src, v, i) =>
             IF WholeSecs(v) > I64Max \/ WholeSecs(i) > I64Max
             THEN /\ status' = "panicked"
                  /\ last'.native = <<>>
                  /\ UNCHANGED <<source, reg, obs>>
             ELSE /\ status' = "running"
                  /\ last'.native = <<0>>
                  /\ reg'[last'.src].deadline = DurNanos(v)
                  /\ reg'[last'.src].interval = (IF DurNanos(v) = 0 THEN 0 ELSE DurNanos(i))]_vars

\* update_timer has panicked on a timer that is armed
C25_Witness ==
    /\ status = "panicked" /\ last.op = "update_timer"
    /\ reg[last.src].deadline # 0

====
